---------------------------- MODULE Spec2Model ----------------------------
(***************************************************************************)
(* A model of create_param_file_json.py: the tool that slices the          *)
(* "Parameters" section out of a CloudFormation template, prompts for one  *)
(* value per declared parameter and writes params.json.                    *)
(*                                                                         *)
(* Text is modelled as a sequence of symbols.  In a template line a symbol *)
(* is a section label (an atomic word such as "Parameters"), the colon,    *)
(* a whitespace character (" " stands for blanks and the line's newline)   *)
(* or "x", a stretch of other text that holds no label, colon or blank.    *)
(* No label of the program's list is a substring of another one, so        *)
(* Python's substring test `label in line` is membership of the label's    *)
(* symbol in the line.  A line typed by the operator is a sequence of      *)
(* one-character strings.                                                  *)
(***************************************************************************)
EXTENDS Integers, Sequences, FiniteSets, TLC

VARIABLES
    pc,                     \* the position of the run
    suffix,                 \* Path(sys.argv[1]).suffix, without its dot
    file_exists,            \* whether the template file can be opened
    users,                  \* sys.argv[2:]
    yaml_content_lines,     \* load_file's result
    index,                  \* get_params_section: the line that set sw_found_start (0: none)
    yaml_content_filtered,  \* get_params_section's result
    params_metadata,        \* the parsed section
    params,                 \* set_params_list: the Param objects
    i,                      \* set_params_list: the Params whose loop body has run
    prompted,               \* the names input() was called for, in order
    params_dict,            \* main: the entries to serialize
    output,                 \* the file params.json
    error,                  \* the exception that ended the run ("" when none)
    last_read,              \* the result of the last read of Param.value
    reads                   \* the reads of Param.value made by the value harness

vars == <<pc, suffix, file_exists, users, yaml_content_lines, index,
          yaml_content_filtered, params_metadata, params, i, prompted,
          params_dict, output, error, last_read, reads>>

-----------------------------------------------------------------------------
(* Bounds of the model. *)

MaxLines == 3
MaxLineLen == 2
MaxDecls == 2
MaxRawLen == 3
MaxReads == 2

-----------------------------------------------------------------------------
(* Text helpers: Python's str methods on symbol sequences. *)

IsSpace(c) == c \in {" ", "\n", "\t"}

RECURSIVE rstrip(_)
rstrip(s) ==
    IF s # <<>> /\ IsSpace(s[Len(s)]) THEN rstrip(SubSeq(s, 1, Len(s) - 1)) ELSE s

RECURSIVE rstrip_chars(_, _)
rstrip_chars(s, c) ==
    IF s # <<>> /\ s[Len(s)] = c THEN rstrip_chars(SubSeq(s, 1, Len(s) - 1), c) ELSE s

Contains(line, word) == \E k \in 1..Len(line) : line[k] = word

RECURSIVE Concat(_)
Concat(ss) == IF ss = <<>> THEN <<>> ELSE Head(ss) \o Concat(Tail(ss))

RECURSIVE join(_, _)
join(sep, ss) ==
    IF ss = <<>> THEN <<>>
    ELSE IF Len(ss) = 1 THEN ss[1]
    ELSE ss[1] \o sep \o join(sep, Tail(ss))

-----------------------------------------------------------------------------
(* The section extractor. *)

AWS_CLOUDFORMATION_PARAMETERS_SECTION_NAME == "Parameters"

AWS_CLOUDFORMATION_SECTIONS_LIST ==
    << "AWSTemplateFormatVersion", "Description", "Metadata", "Parameters",
       "Rules", "Mappings", "Conditions", "Transform", "Resources", "Outputs" >>

is_not_aws_cloudformation_sections(line) ==
    ~ \E k \in 1..Len(AWS_CLOUDFORMATION_SECTIONS_LIST) :
        LET section == AWS_CLOUDFORMATION_SECTIONS_LIST[k]
        IN  /\ Contains(line, section)
            /\ <<section>> = rstrip_chars(rstrip(line), ":")

\* The enumerate loop's index (counted from 1) at which sw_found_start is set.
StartIndex(lines) ==
    IF \E k \in 1..Len(lines) :
           Contains(lines[k], AWS_CLOUDFORMATION_PARAMETERS_SECTION_NAME)
    THEN CHOOSE k \in 1..Len(lines) :
           /\ Contains(lines[k], AWS_CLOUDFORMATION_PARAMETERS_SECTION_NAME)
           /\ \A m \in 1..(k - 1) :
                ~ Contains(lines[m], AWS_CLOUDFORMATION_PARAMETERS_SECTION_NAME)
    ELSE 0

\* The inner loop: append lines until the first section line, then break.
RECURSIVE CollectParamLines(_)
CollectParamLines(rest) ==
    IF rest = <<>> THEN <<>>
    ELSE IF is_not_aws_cloudformation_sections(Head(rest))
         THEN <<Head(rest)>> \o CollectParamLines(Tail(rest))
         ELSE <<>>

get_params_section(lines) ==
    IF StartIndex(lines) = 0 THEN <<>>
    ELSE CollectParamLines(SubSeq(lines, StartIndex(lines) + 1, Len(lines)))


-----------------------------------------------------------------------------
(* Python values: a str, a float, a list of str, or no value yet. *)

PyStr(s) == [t |-> "str", s |-> s, n |-> 0, l |-> <<>>]
PyFloat(n) == [t |-> "float", s |-> <<>>, n |-> n, l |-> <<>>]
PyList(l) == [t |-> "list", s |-> <<>>, n |-> 0, l |-> l]
PyNone == [t |-> "none", s |-> <<>>, n |-> 0, l |-> <<>>]

Ok(v) == [ok |-> TRUE, v |-> v, err |-> ""]
Raise(e) == [ok |-> FALSE, v |-> PyNone, err |-> e]

RECURSIVE lstrip(_)
lstrip(s) == IF s # <<>> /\ IsSpace(s[1]) THEN lstrip(Tail(s)) ELSE s

strip(s) == lstrip(rstrip(s))

DigitOf ==
    [c \in {"0", "1", "2", "3", "4", "5", "6", "7", "8", "9"} |->
        CASE c = "0" -> 0 [] c = "1" -> 1 [] c = "2" -> 2 [] c = "3" -> 3
          [] c = "4" -> 4 [] c = "5" -> 5 [] c = "6" -> 6 [] c = "7" -> 7
          [] c = "8" -> 8 [] c = "9" -> 9]

RECURSIVE DigitsValue(_)
DigitsValue(s) ==
    IF s = <<>> THEN 0
    ELSE 10 * DigitsValue(SubSeq(s, 1, Len(s) - 1)) + DigitOf[s[Len(s)]]

\* float(x) on a str: blanks are stripped, one sign is allowed, then digits.
\* (A fraction, an exponent, "inf" and "nan" need symbols the model's raw
\* strings do not hold.)
float(x) ==
    IF x.t # "str" THEN Raise("TypeError")
    ELSE LET t == strip(x.s)
             signed == t # <<>> /\ t[1] \in {"-", "+"}
             digits == IF signed THEN Tail(t) ELSE t
         IN  IF digits # <<>> /\ \A k \in 1..Len(digits) : digits[k] \in DOMAIN DigitOf
             THEN Ok(PyFloat(IF signed /\ t[1] = "-"
                             THEN 0 - DigitsValue(digits) ELSE DigitsValue(digits)))
             ELSE Raise("ValueError")

\* str(x): a str is returned as it is.
str(x) == IF x.t = "str" THEN Ok(x) ELSE Ok(PyStr(<<"repr">>))

FirstIndexOf(s, c) == CHOOSE k \in 1..Len(s) : s[k] = c /\ \A m \in 1..(k - 1) : s[m] # c

RECURSIVE split(_, _)
split(s, c) ==
    IF ~ Contains(s, c) THEN <<s>>
    ELSE <<SubSeq(s, 1, FirstIndexOf(s, c) - 1)>>
         \o split(SubSeq(s, FirstIndexOf(s, c) + 1, Len(s)), c)

RECURSIVE DropEmpty(_)
DropEmpty(ss) ==
    IF ss = <<>> THEN <<>>
    ELSE (IF Head(ss) = <<>> THEN <<>> ELSE <<Head(ss)>>) \o DropEmpty(Tail(ss))

\* A split that leaves the empty pieces out.
MutantSplitDropsEmpty(x) ==
    IF x.t = "str" THEN Ok(PyList(DropEmpty(split(x.s, ",")))) ELSE Raise("AttributeError")

\* lambda x: x.split(","): only a str has the method.
split_comma(x) ==
    IF x.t = "str" THEN Ok(PyList(split(x.s, ","))) ELSE Raise("AttributeError")

TYPES_MAPPING(param_type, x) ==
    CASE param_type = "String" -> str(x)
      [] param_type = "Number" -> float(x)
      [] param_type = "CommaDelimitedList" -> split_comma(x)
      [] OTHER -> Raise("KeyError")

\* A Param; its description is only printed and is left out.  _value is
\* the attribute the setter creates.
Param(name, param_type) ==
    [name |-> name, param_type |-> param_type, _value |-> PyNone]

\* The property Param.value: the getter.
value(param) ==
    IF param._value.t = "none" THEN Raise("AttributeError")
    ELSE TYPES_MAPPING(param.param_type, param._value)

\* The setter.
set_value(param, v) == [param EXCEPT !._value = v]

\* Python's `left += right` with right a str.
iadd_str(left, right) ==
    CASE left.t = "str" -> Ok(PyStr(left.s \o right))
      [] left.t = "list" -> Ok(PyList(left.l \o [k \in 1..Len(right) |-> <<right[k]>>]))
      [] OTHER -> Raise("TypeError")

\* Lines 66-68: param.value = input(...); if users: param.value += "-" + "-".join(users).
\* The result holds the Param as the body leaves it and the exception, if any.
StoreInput(param, line, us) ==
    LET stored == set_value(param, PyStr(line))
        got == value(stored)
        added == iadd_str(got.v, <<"-">> \o join(<<"-">>, us))
    IN  IF us = <<>> THEN [param |-> stored, err |-> ""]
        ELSE IF ~ got.ok THEN [param |-> stored, err |-> got.err]
        ELSE IF ~ added.ok THEN [param |-> stored, err |-> added.err]
        ELSE [param |-> set_value(stored, added.v), err |-> ""]

-----------------------------------------------------------------------------
(* The serializer: json.dump's document, and json.load for reading it back. *)

PyInt(n) == [t |-> "int", s |-> <<>>, n |-> n, l |-> <<>>]

JString(s) == [j |-> "string", s |-> s, n |-> 0, frac |-> FALSE, a |-> <<>>]
\* A float is written with its fraction ("42.0"), an int without.
JNumber(n, frac) == [j |-> "number", s |-> <<>>, n |-> n, frac |-> frac, a |-> <<>>]
JArray(a) == [j |-> "array", s |-> <<>>, n |-> 0, frac |-> FALSE, a |-> a]

to_json(v) ==
    CASE v.t = "str" -> JString(v.s)
      [] v.t = "float" -> JNumber(v.n, TRUE)
      [] v.t = "int" -> JNumber(v.n, FALSE)
      [] OTHER -> JArray([k \in 1..Len(v.l) |-> JString(v.l[k])])

from_json(jv) ==
    CASE jv.j = "string" -> PyStr(jv.s)
      [] jv.j = "number" -> IF jv.frac THEN PyFloat(jv.n) ELSE PyInt(jv.n)
      [] OTHER -> PyList([k \in 1..Len(jv.a) |-> jv.a[k].s])

\* json.dump(params_dict, f, indent=4): one object per entry, in list order.
json_dump(entries) ==
    [k \in 1..Len(entries) |->
        [ParameterKey |-> JString(<<entries[k].ParameterKey>>),
         ParameterValue |-> to_json(entries[k].ParameterValue)]]

json_load(doc) ==
    [k \in 1..Len(doc) |->
        [ParameterKey |-> doc[k].ParameterKey.s[1],
         ParameterValue |-> from_json(doc[k].ParameterValue)]]

\* params.json: absent, holding an earlier run's text ("old"), opened and
\* truncated ("empty"), or written by this run.
FileAbsent == [status |-> "absent", data |-> <<>>]
FileOld == [status |-> "old", data |-> <<>>]
FileEmpty == [status |-> "empty", data |-> <<>>]
FileWritten(doc) == [status |-> "written", data |-> doc]

-----------------------------------------------------------------------------
(* The inputs of a run. *)

\* Path.suffix without its dot, as symbols: ".xyaml" is <<"x", "yaml">>.
Suffixes == { <<>>, <<"txt">>, <<"yaml">>, <<"yml">>, <<"x", "yaml">>, <<"yaml", "x">> }

\* sys.argv[2:]
UsersChoices == { <<>>, << <<"d", "e", "v">> >>, << <<"d", "e", "v">>, <<"e", "a", "s", "t">> >> }

\* The lines the operator types.
InputLines == { <<"4", "2">>, <<"a", "b", "c">>, <<"a", ",", "b">>, <<"b", "a", "s", "e">> }

\* Template files.
Templates ==
    { <<>>,
      << <<"Parameters", ":", "\n">>, <<" ", "x", ":", "\n">>, <<"Resources", ":", "\n">>,
         <<" ", "x", "\n">> >>,
      << <<"Parameters", ":", "\n">>, <<" ", "x", ":", "\n">>, <<" ", "x", "\n">> >>,
      << <<"Resources", ":", "\n">>, <<" ", "x", "\n">> >>,
      << <<"Parameters", ":", "\n">>, <<"Resources", ":", "\n">>, <<" ", "x", "\n">> >>,
      << <<"Description", ":", " ", "x", "Parameters", "\n">>, <<"Parameters", ":", "\n">>,
         <<" ", "x", ":", "\n">> >> }

ParamNames == << "Env", "Count", "Zones", "Owner" >>

\* The Type of a declaration; "" stands for a declaration without a Type.
TypeChoices == { "String", "Number", "CommaDelimitedList", "AWS::EC2::Image::Id", "" }

\* The mappings a section can parse to: up to MaxDecls declarations, in
\* the order of the section.
Mappings ==
    UNION { { [k \in 1..n |-> [key |-> ParamNames[k], Type |-> f[k]]] :
                f \in [1..n -> TypeChoices] } : n \in 0..MaxDecls }

Unparsed == [kind |-> "unparsed", items |-> <<>>]
YamlNone == [kind |-> "none", items |-> <<>>]
YamlScalar == [kind |-> "scalar", items |-> <<>>]
YamlMapping(items) == [kind |-> "mapping", items |-> items]

-----------------------------------------------------------------------------
(* The run, one action per step of the script. *)

Fail(e) == pc' = "failed" /\ error' = e

\* Lines 34-40 and 109: the suffix must end in "yaml" or "yml".
validate_yaml_file ==
    /\ pc = "validate"
    /\ IF suffix # <<>> /\ suffix[Len(suffix)] \in {"yaml", "yml"}
       THEN pc' = "load" /\ error' = error
       ELSE Fail("IsNotYamlFile")
    /\ UNCHANGED <<suffix, file_exists, users, yaml_content_lines, index,
                   yaml_content_filtered, params_metadata, params, i, prompted,
                   params_dict, output, last_read, reads>>

\* Lines 101-106.
load_file ==
    /\ pc = "load"
    /\ IF file_exists
       THEN /\ \E doc \in Templates : yaml_content_lines' = doc
            /\ pc' = "extract"
            /\ error' = error
       ELSE Fail("FileNotFoundError") /\ yaml_content_lines' = yaml_content_lines
    /\ UNCHANGED <<suffix, file_exists, users, index, yaml_content_filtered,
                   params_metadata, params, i, prompted, params_dict, output,
                   last_read, reads>>

\* Line 73: get_params_section(yaml_content_lines).
extract_section ==
    /\ pc = "extract"
    /\ index' = StartIndex(yaml_content_lines)
    /\ yaml_content_filtered' = get_params_section(yaml_content_lines)
    /\ pc' = "parse"
    /\ UNCHANGED <<suffix, file_exists, users, yaml_content_lines, params_metadata,
                   params, i, prompted, params_dict, output, error, last_read, reads>>

\* Lines 73-78: yaml.load of the joined lines.  A text with nothing but
\* blanks loads as None; any other text is a syntax error, a scalar or a
\* mapping.
parse_yaml_params_section_content ==
    /\ pc = "parse"
    /\ IF strip(Concat(yaml_content_filtered)) = <<>>
       THEN params_metadata' = YamlNone /\ pc' = "construct" /\ error' = error
       ELSE \/ Fail("YAMLError") /\ params_metadata' = params_metadata
            \/ /\ params_metadata' = YamlScalar
               /\ pc' = "construct" /\ error' = error
            \/ /\ \E items \in Mappings : params_metadata' = YamlMapping(items)
               /\ pc' = "construct" /\ error' = error
    /\ UNCHANGED <<suffix, file_exists, users, yaml_content_lines, index,
                   yaml_content_filtered, params, i, prompted, params_dict, output,
                   last_read, reads>>

\* Lines 58-60: only a mapping has items(); metadata["Type"] must exist.
construct_params ==
    /\ pc = "construct"
    /\ IF params_metadata.kind # "mapping"
       THEN Fail("AttributeError") /\ params' = params
       ELSE IF \E k \in 1..Len(params_metadata.items) : params_metadata.items[k].Type = ""
       THEN Fail("KeyError") /\ params' = params
       ELSE /\ params' = [k \in 1..Len(params_metadata.items) |->
                            Param(params_metadata.items[k].key, params_metadata.items[k].Type)]
            /\ pc' = "prompt"
            /\ error' = error
    /\ UNCHANGED <<suffix, file_exists, users, yaml_content_lines, index,
                   yaml_content_filtered, params_metadata, i, prompted, params_dict,
                   output, last_read, reads>>

\* Lines 61-66: the loop takes the next Param, prints it and calls input().
print_prompt ==
    /\ pc = "prompt"
    /\ i < Len(params)
    /\ prompted' = Append(prompted, params[i + 1].name)
    /\ pc' = "input"
    /\ UNCHANGED <<suffix, file_exists, users, yaml_content_lines, index,
                   yaml_content_filtered, params_metadata, params, i, params_dict,
                   output, error, last_read, reads>>

\* A loop that asks again when the value cannot be stored.
MutantInputRetries ==
    /\ pc = "input"
    /\ \E line \in InputLines :
         LET r == StoreInput(params[i + 1], line, users)
         IN  /\ params' = [params EXCEPT ![i + 1] = r.param]
             /\ pc' = "prompt"
             /\ i' = IF r.err = "" THEN i + 1 ELSE i
             /\ error' = error
    /\ UNCHANGED <<suffix, file_exists, users, yaml_content_lines, index,
                   yaml_content_filtered, params_metadata, prompted, params_dict,
                   output, last_read, reads>>

\* Lines 66-68: input() returns a line; the value is stored.
input_returns ==
    /\ pc = "input"
    /\ \E line \in InputLines :
         LET r == StoreInput(params[i + 1], line, users)
         IN  /\ params' = [params EXCEPT ![i + 1] = r.param]
             /\ IF r.err = ""
                THEN pc' = "prompt" /\ i' = i + 1 /\ error' = error
                ELSE Fail(r.err) /\ i' = i
    /\ UNCHANGED <<suffix, file_exists, users, yaml_content_lines, index,
                   yaml_content_filtered, params_metadata, prompted, params_dict,
                   output, last_read, reads>>

\* Lines 66 and 114-115: Ctrl-C while input() blocks, the run's only
\* suspension point.
keyboard_interrupt ==
    /\ pc = "input"
    /\ pc' = "interrupted"
    /\ error' = "KeyboardInterrupt"
    /\ UNCHANGED <<suffix, file_exists, users, yaml_content_lines, index,
                   yaml_content_filtered, params_metadata, params, i, prompted,
                   params_dict, output, last_read, reads>>

\* Line 66: the end of standard input while input() blocks.
end_of_input ==
    /\ pc = "input"
    /\ Fail("EOFError")
    /\ UNCHANGED <<suffix, file_exists, users, yaml_content_lines, index,
                   yaml_content_filtered, params_metadata, params, i, prompted,
                   params_dict, output, last_read, reads>>

\* Line 69: the loop is over.
return_params ==
    /\ pc = "prompt"
    /\ i = Len(params)
    /\ pc' = "build"
    /\ UNCHANGED <<suffix, file_exists, users, yaml_content_lines, index,
                   yaml_content_filtered, params_metadata, params, i, prompted,
                   params_dict, output, error, last_read, reads>>

\* The first Param whose value cannot be read (0: none).
FirstUnreadable(ps) ==
    IF \E k \in 1..Len(ps) : ~ value(ps[k]).ok
    THEN CHOOSE k \in 1..Len(ps) :
            ~ value(ps[k]).ok /\ \A m \in 1..(k - 1) : value(ps[m]).ok
    ELSE 0

\* The entries built from the last Param to the first.
MutantBuildEntriesReversed(ps) ==
    [k \in 1..Len(ps) |->
        [ParameterKey |-> ps[Len(ps) + 1 - k].name,
         ParameterValue |-> value(ps[Len(ps) + 1 - k]).v]]

\* Lines 45-47: the list comprehension.
BuildEntries(ps) ==
    [k \in 1..Len(ps) |-> [ParameterKey |-> ps[k].name, ParameterValue |-> value(ps[k]).v]]

\* The file opened before the values are read.
MutantBuildOpensFirst ==
    /\ pc = "build"
    /\ output' = FileEmpty
    /\ IF FirstUnreadable(params) = 0
       THEN /\ params_dict' = BuildEntries(params)
            /\ pc' = "summary"
            /\ error' = error
       ELSE Fail(value(params[FirstUnreadable(params)]).err) /\ params_dict' = params_dict
    /\ UNCHANGED <<suffix, file_exists, users, yaml_content_lines, index,
                   yaml_content_filtered, params_metadata, params, i, prompted,
                   last_read, reads>>

\* Lines 44-47.
main_build ==
    /\ pc = "build"
    /\ IF FirstUnreadable(params) = 0
       THEN /\ params_dict' = BuildEntries(params)
            /\ pc' = "summary"
            /\ error' = error
       ELSE Fail(value(params[FirstUnreadable(params)]).err) /\ params_dict' = params_dict
    /\ UNCHANGED <<suffix, file_exists, users, yaml_content_lines, index,
                   yaml_content_filtered, params_metadata, params, i, prompted,
                   output, last_read, reads>>

\* Lines 48-51: the summary reads every value again.
main_summary ==
    /\ pc = "summary"
    /\ IF FirstUnreadable(params) = 0
       THEN pc' = "open" /\ error' = error
       ELSE Fail(value(params[FirstUnreadable(params)]).err)
    /\ UNCHANGED <<suffix, file_exists, users, yaml_content_lines, index,
                   yaml_content_filtered, params_metadata, params, i, prompted,
                   params_dict, output, last_read, reads>>

\* Line 52: open(params_json_path, "w") creates or truncates the file, or
\* fails when the path is not writable.
main_open ==
    /\ pc = "open"
    /\ \E writable \in BOOLEAN :
         IF writable
         THEN output' = FileEmpty /\ pc' = "dump" /\ error' = error
         ELSE Fail("PermissionError") /\ output' = output
    /\ UNCHANGED <<suffix, file_exists, users, yaml_content_lines, index,
                   yaml_content_filtered, params_metadata, params, i, prompted,
                   params_dict, last_read, reads>>

\* Line 53.
main_dump ==
    /\ pc = "dump"
    /\ output' = FileWritten(json_dump(params_dict))
    /\ pc' = "finish"
    /\ UNCHANGED <<suffix, file_exists, users, yaml_content_lines, index,
                   yaml_content_filtered, params_metadata, params, i, prompted,
                   params_dict, error, last_read, reads>>

\* Line 54.
main_finish ==
    /\ pc = "finish"
    /\ pc' = "done"
    /\ UNCHANGED <<suffix, file_exists, users, yaml_content_lines, index,
                   yaml_content_filtered, params_metadata, params, i, prompted,
                   params_dict, output, error, last_read, reads>>

Init ==
    /\ pc = "validate"
    /\ suffix \in Suffixes
    /\ file_exists \in BOOLEAN
    /\ users \in UsersChoices
    /\ yaml_content_lines = <<>>
    /\ index = 0
    /\ yaml_content_filtered = <<>>
    /\ params_metadata = Unparsed
    /\ params = <<>>
    /\ i = 0
    /\ prompted = <<>>
    /\ params_dict = <<>>
    /\ output \in {FileAbsent, FileOld}
    /\ error = ""
    /\ last_read = Raise("")
    /\ reads = 0

Next ==
    \/ validate_yaml_file
    \/ load_file
    \/ extract_section
    \/ parse_yaml_params_section_content
    \/ construct_params
    \/ print_prompt
    \/ input_returns
    \/ keyboard_interrupt
    \/ end_of_input
    \/ return_params
    \/ main_build
    \/ main_summary
    \/ main_open
    \/ main_dump
    \/ main_finish

Spec == Init /\ [][Next]_vars

-----------------------------------------------------------------------------
(* The section extractor alone, on every template within the bounds. *)

LineSymbols == { "Parameters", "Resources", ":", " ", "x" }

Lines == UNION { [1..n -> LineSymbols] : n \in 1..MaxLineLen }

Docs == UNION { [1..n -> Lines] : n \in 0..MaxLines }

InitExtract ==
    /\ pc = "extract"
    /\ suffix = <<"yaml">>
    /\ file_exists = TRUE
    /\ users = <<>>
    /\ yaml_content_lines \in Docs
    /\ index = 0
    /\ yaml_content_filtered = <<>>
    /\ params_metadata = Unparsed
    /\ params = <<>>
    /\ i = 0
    /\ prompted = <<>>
    /\ params_dict = <<>>
    /\ output = FileAbsent
    /\ error = ""
    /\ last_read = Raise("")
    /\ reads = 0

NextExtract == extract_section

SpecExtract == InitExtract /\ [][NextExtract]_vars

-----------------------------------------------------------------------------
(* Param.value alone, on every type tag and every raw string within the   *)
(* bounds.                                                                 *)

RawSymbols == { "a", "4", ",", "-" }

RawStrings == UNION { [1..n -> RawSymbols] : n \in 0..MaxRawLen } \cup InputLines

InitValue ==
    /\ pc = "value"
    /\ suffix = <<"yaml">>
    /\ file_exists = TRUE
    /\ users = <<>>
    /\ yaml_content_lines = <<>>
    /\ index = 0
    /\ yaml_content_filtered = <<>>
    /\ params_metadata = Unparsed
    /\ \E tag \in TypeChoices \ {""}, s \in RawStrings :
         params = << set_value(Param("Env", tag), PyStr(s)) >>
    /\ i = 0
    /\ prompted = <<>>
    /\ params_dict = <<>>
    /\ output = FileAbsent
    /\ error = ""
    /\ last_read = Raise("")
    /\ reads = 0

\* Lines 23-25: one read of the property.
read_value ==
    /\ pc = "value"
    /\ reads < MaxReads
    /\ last_read' = value(params[1])
    /\ reads' = reads + 1
    /\ UNCHANGED <<pc, suffix, file_exists, users, yaml_content_lines, index,
                   yaml_content_filtered, params_metadata, params, i, prompted,
                   params_dict, output, error>>

NextValue == read_value

SpecValue == InitValue /\ [][NextValue]_vars

-----------------------------------------------------------------------------
(* What the specification says of the section extractor. *)

\* The first line that equals "Parameters:" after trimming (0: none).
ExactStartIndex(lines) ==
    IF \E k \in 1..Len(lines) : strip(lines[k]) = <<"Parameters", ":">>
    THEN CHOOSE k \in 1..Len(lines) :
            /\ strip(lines[k]) = <<"Parameters", ":">>
            /\ \A m \in 1..(k - 1) : strip(lines[m]) # <<"Parameters", ":">>
    ELSE 0

\* A line that, after trimming, is a top-level section label followed by ":".
IsBoundaryLine(line) ==
    \E k \in 1..Len(AWS_CLOUDFORMATION_SECTIONS_LIST) :
        strip(line) = <<AWS_CLOUDFORMATION_SECTIONS_LIST[k], ":">>

RECURSIVE UpToBoundary(_)
UpToBoundary(rest) ==
    IF rest = <<>> \/ IsBoundaryLine(Head(rest)) THEN <<>>
    ELSE <<Head(rest)>> \o UpToBoundary(Tail(rest))

SectionBetween(lines) ==
    IF ExactStartIndex(lines) = 0 THEN <<>>
    ELSE UpToBoundary(SubSeq(lines, ExactStartIndex(lines) + 1, Len(lines)))

\* C1: get_params_section starts collecting after the first line that equals
\* "Parameters:" after trimming, and after no other line: a line that only
\* contains the word is never taken as the start.
C1_StartIsExactLine ==
    pc = "parse" => index = ExactStartIndex(yaml_content_lines)

\* C2: when a start line exists, get_params_section returns exactly the lines
\* that follow it up to, and without, the first line that after trimming is
\* a section label followed by ":" (or up to the end of the input).
C2_SectionBetweenBoundaries ==
    (pc = "parse" /\ ExactStartIndex(yaml_content_lines) # 0)
        => yaml_content_filtered = SectionBetween(yaml_content_lines)

-----------------------------------------------------------------------------
(* The run. *)

Ended == pc \in {"done", "failed", "interrupted"}

Untouched == output.status \in {"absent", "old"}

\* The template was read.
Loaded == pc \notin {"validate", "load"} /\ error \notin {"IsNotYamlFile", "FileNotFoundError"}

\* C3: for a template with no Parameters section the extracted section is
\* empty, the parser yields an empty mapping, and the run completes with no
\* prompt and an empty list written (unless params.json cannot be opened).
C3_NoSectionGivesEmptyOutput ==
    (/\ Loaded /\ Ended /\ error # "PermissionError"
     /\ yaml_content_lines # <<>> /\ ExactStartIndex(yaml_content_lines) = 0)
        => /\ pc = "done"
           /\ yaml_content_filtered = <<>>
           /\ params_metadata = YamlMapping(<<>>)
           /\ prompted = <<>>
           /\ output = FileWritten(<<>>)

\* C4: params.json is opened only after every declaration was prompted for
\* and every value coerced; a run that fails or is interrupted leaves the
\* file as it was, and a written file holds an entry for every declaration.
C4_OutputOnlyAfterAllCoerced ==
    /\ ~ Untouched =>
          /\ pc \in {"dump", "finish", "done"}
          /\ error = ""
          /\ i = Len(params)
          /\ Len(prompted) = Len(params)
          /\ \A k \in 1..Len(params) : value(params[k]).ok
    /\ pc \in {"failed", "interrupted"} => Untouched
    /\ output.status = "written" => Len(output.data) = Len(params)
    /\ pc = "done" => output.status = "written"

\* A run that fails on a coercion after the last prompt, params.json as it was.
C4_Witness ==
    /\ pc = "failed"
    /\ error = "ValueError"
    /\ Len(params) = 2
    /\ i = 2
    /\ output = FileOld

\* The text appended to every value when extra tokens are given.
UsersSuffix == IF users = <<>> THEN <<>> ELSE <<"-">> \o join(<<"-">>, users)

\* C5: whatever the type tag, the raw value the collector stores is the
\* operator's line followed by "-" and the tokens joined with "-", and the
\* line unchanged when there are no tokens.
C5_StoredRawHasSuffix ==
    \A k \in 1..Len(params) :
        params[k]._value.t # "none" =>
            \E line \in InputLines : params[k]._value = PyStr(line \o UsersSuffix)

\* C6: the written file, read back, holds one entry per declaration, in the
\* order of the section, with the declaration's name and the Record's
\* coerced value.
C6_RoundTrip ==
    pc = "done" =>
        LET back == json_load(output.data)
        IN  /\ Len(back) = Len(params_metadata.items)
            /\ \A k \in 1..Len(back) :
                 /\ back[k].ParameterKey = params_metadata.items[k].key
                 /\ back[k].ParameterValue = value(params[k]).v

\* The specification's scenario: Env: String and Count: Number, both written.
C6_Witness ==
    /\ pc = "done"
    /\ Len(params) = 2
    /\ params[1].param_type = "String"
    /\ params[2].param_type = "Number"
    /\ Len(output.data) = 2

\* C7: a path whose extension is not "yaml" or "yml" fails with the
\* extension error before any file is read, and a missing file fails with
\* FileNotFound; in both cases no prompt is issued and params.json is left
\* as it was.
C7_ValidationFailsFirst ==
    /\ (suffix \notin {<<"yaml">>, <<"yml">>} /\ pc # "validate") =>
          /\ pc = "failed"
          /\ error = "IsNotYamlFile"
          /\ yaml_content_lines = <<>>
          /\ prompted = <<>>
          /\ Untouched
    /\ (suffix \in {<<"yaml">>, <<"yml">>} /\ ~ file_exists /\ pc \notin {"validate", "load"}) =>
          /\ pc = "failed"
          /\ error = "FileNotFoundError"
          /\ prompted = <<>>
          /\ Untouched

\* The run is inside the collection loop: a prompt was issued and its
\* loop body has not completed.
InCollection == Len(prompted) > i

\* C8: no coercion is applied while the Records are collected: the
\* collection never ends with a coercion error or a type-tag lookup failure.
C8_NoCoercionInCollection ==
    ~ (pc = "failed" /\ InCollection /\ error \in {"ValueError", "KeyError", "TypeError"})

StageRank(p) ==
    CASE p = "validate" -> 1
      [] p \in {"load", "extract"} -> 2
      [] p = "parse" -> 3
      [] p \in {"construct", "prompt", "input"} -> 4
      [] p \in {"build", "summary", "open", "dump", "finish"} -> 5
      [] OTHER -> 6

\* C9: the stages are passed in order and never re-entered, an ended run
\* takes no step, and the prompts are issued one at a time in declaration
\* order, each once, the next one only after the previous read completed.
C9_StagesInOrder ==
    [][ /\ ~ Ended
        /\ StageRank(pc') >= StageRank(pc)
        /\ prompted' # prompted =>
              /\ pc' = "input"
              /\ Len(prompted) = i
              /\ Len(prompted) < Len(params)
              /\ prompted' = Append(prompted, params[Len(prompted) + 1].name)
        /\ (pc = "prompt" /\ pc' = "build") =>
              prompted = [k \in 1..Len(params) |-> params[k].name]
      ]_vars

\* A run that prompted for two declarations and completed.
C9_Witness ==
    /\ pc = "done"
    /\ Len(prompted) = 2
    /\ prompted = <<"Env", "Count">>

-----------------------------------------------------------------------------
(* Param.value. *)

IsNumeral(s) ==
    LET digits == IF s # <<>> /\ s[1] \in {"-", "+"} THEN Tail(s) ELSE s
    IN  digits # <<>> /\ \A k \in 1..Len(digits) : digits[k] \in DOMAIN DigitOf

RECURSIVE CountOf(_, _)
CountOf(s, c) ==
    IF s = <<>> THEN 0 ELSE (IF Head(s) = c THEN 1 ELSE 0) + CountOf(Tail(s), c)

\* What a read of the value must give for a type tag and a raw string.
ReadIsCoercion(tag, raw, r) ==
    CASE tag = "String" -> r = Ok(PyStr(raw))
      [] tag = "Number" ->
            /\ r.ok = IsNumeral(raw)
            /\ r.ok => r.v.t = "float"
            /\ ~ r.ok => r.err = "ValueError"
            /\ raw = <<"4", "2">> => r.v.n = 42
            /\ raw = <<"-", "4">> => r.v.n = 0 - 4
      [] tag = "CommaDelimitedList" ->
            /\ r.ok
            /\ r.v.t = "list"
            /\ Len(r.v.l) = CountOf(raw, ",") + 1
            /\ \A k \in 1..Len(r.v.l) : ~ Contains(r.v.l[k], ",")
            /\ join(<<",">>, r.v.l) = raw
            /\ raw = <<"a", ",", "b">> => r.v.l = << <<"a">>, <<"b">> >>
      [] OTHER -> ~ r.ok /\ r.err = "KeyError"

\* C10: a read applies the coercion of the type tag to the stored string
\* (String: the string; Number: its number, an error when not numeric;
\* CommaDelimitedList: the pieces between the commas; any other tag: a
\* lookup failure), leaves the stored string as it is, and gives the same
\* result when repeated.
C10_ReadCoerces ==
    [][ reads' > reads =>
          /\ params' = params
          /\ ReadIsCoercion(params[1].param_type, params[1]._value.s, last_read')
          /\ reads > 0 => last_read' = last_read
      ]_vars

\* "a,b" read twice as a CommaDelimitedList.
C10_Witness ==
    /\ pc = "value"
    /\ reads = 2
    /\ params[1].param_type = "CommaDelimitedList"
    /\ params[1]._value = PyStr(<<"a", ",", "b">>)
    /\ last_read = Ok(PyList(<< <<"a">>, <<"b">> >>))

=============================================================================
